---- MODULE Spec2Model ----
\* A model of slack-bot-cleaner (src/main.go): start() reads and validates the
\* YAML settings, resolves every configured user to a DM conversation and then
\* deletes the history of every resolved conversation, page by page.
\* The Slack platform is the environment: it owns the histories, answers every
\* call with a result or an error, and reports has_more truthfully.
EXTENDS Integers, Sequences, FiniteSets, TLC

VARIABLES
    pc,        \* position of the single thread of control
    file,      \* the settings file as found on disk (input of readYmlFile)
    config,    \* start's config: the value returned by readYmlFile, or Null
    err,       \* the error value most recently returned (Nil for Go's nil)
    resolved,  \* getConvos' local convs
    ui,        \* getConvos' position in config.Users (1-based)
    convs,     \* start's convs: the value returned by getConvos
    ci,        \* start's position in convs (1-based)
    hist,      \* deleteConvo's hist.Messages: the page fetched last
    more,      \* deleteConvo's hist.HasMore
    cont,      \* deleteConvo's cont
    mi,        \* deleteConvo's position in hist.Messages (1-based)
    history,   \* the platform: conversation id -> remaining messages, newest first
    log        \* every platform call and every sleep of the run, in order

vars == <<pc, file, config, err, resolved, ui, convs, ci, hist, more, cont, mi,
          history, log>>

-----------------------------------------------------------------------------
\* Bounds of the model.

\* longest configured user list
MaxUsers == 3
\* longest configured conversation list
MaxConvs == 1
\* most messages a conversation holds when the run starts
MaxMsgs == 4
\* most messages the platform puts on one page
PageLimit == 2
\* most platform calls of one run
MaxCalls == 10
\* most rate-limit answers to deletes in one run, where they are assumed to end
MaxRateLimits == 2
\* longest configured user list of the runs checked for termination
MaxFairUsers == 2

-----------------------------------------------------------------------------
\* Values.

Nil == "nil"
Null == [Token |-> "", Convs |-> <<>>, Users |-> <<>>, null |-> TRUE]

Tokens == {"", "xoxb-1"}
UserIDs == {"U1", "U2"}
ConfigConvIDs == {"C9"}

\* The DM channel the platform opens for a user.
ChannelOf(u) == IF u = "U1" THEN "D1" ELSE "D2"
ConvIDs == {ChannelOf(u) : u \in UserIDs}

RECURSIVE SeqsUpTo(_, _)
SeqsUpTo(S, n) ==
    IF n = 0 THEN {<<>>}
    ELSE LET shorter == SeqsUpTo(S, n - 1)
         IN  shorter \cup {Append(s, x) : s \in {t \in shorter : Len(t) = n - 1}, x \in S}

\* type config struct
Configs ==
    [Token : Tokens, Convs : SeqsUpTo(ConfigConvIDs, MaxConvs),
     Users : SeqsUpTo(UserIDs, MaxUsers), null : {FALSE}]

\* What readYmlFile can find at the path: no readable file, bytes that are
\* not YAML for a config, or bytes that parse to a config.
Files ==
    {[readable |-> FALSE, wellformed |-> FALSE, parsed |-> Null],
     [readable |-> TRUE, wellformed |-> FALSE, parsed |-> Null]}
    \cup {[readable |-> TRUE, wellformed |-> TRUE, parsed |-> c] : c \in Configs}

\* Error values, by name; ErrorText is err.Error() as a sequence of tokens.
ErrIO == "ErrIO"
ErrParse == "ErrParse"
ErrToken == "ErrToken"
ErrTargets == "ErrTargets"
ErrRateLimited == "ErrRateLimited"
ErrUserNotFound == "ErrUserNotFound"
ErrChannelNotFound == "ErrChannelNotFound"
ErrMessageNotFound == "ErrMessageNotFound"

ErrorText(e) ==
    CASE e = ErrIO -> <<"open", ":", "no", "such", "file">>
      [] e = ErrParse -> <<"yaml", ":", "unmarshal", "errors">>
      [] e = ErrToken -> <<"invalid", "api", "token">>
      [] e = ErrTargets -> <<"Need", "either", "one", "user", "or", "conversation">>
      [] e = ErrRateLimited ->
            <<"slack", "rate", "limit", "exceeded", ",", "retry", "after", "30s">>
      [] e = ErrUserNotFound -> <<"user_not_found">>
      [] e = ErrChannelNotFound -> <<"channel_not_found">>
      [] e = ErrMessageNotFound -> <<"message_not_found">>
      [] OTHER -> <<>>

\* strings.Contains
Contains(s, sub) ==
    \E i \in 0..(Len(s) - Len(sub)) : SubSeq(s, i + 1, i + Len(sub)) = sub

RateLimitText == <<"slack", "rate", "limit", "exceeded">>

\* Variants of IsRateLimit: every error, or no error, taken for a rate limit.
IsRateLimitAlways(e) == TRUE
IsRateLimitNever(e) == FALSE

\* The test of line 103 on a delete's error.
IsRateLimit(e) == Contains(ErrorText(e), RateLimitText)

\* The errors each platform call can answer with.
OpenErrors == {ErrRateLimited, ErrUserNotFound}
FetchErrors == {ErrRateLimited, ErrChannelNotFound}
DeleteErrors == {ErrRateLimited, ErrMessageNotFound}

\* time.Sleep's argument, in seconds.
seconds == 30

-----------------------------------------------------------------------------
\* The platform.

RECURSIVE Newest(_)
\* n messages, newest first; a message is its timestamp.
Newest(n) == IF n = 0 THEN <<>> ELSE <<n>> \o Newest(n - 1)

Min(a, b) == IF a < b THEN a ELSE b

\* conversations.history without a cursor: the newest messages, one page of them.
Page(h) == SubSeq(h, 1, Min(Len(h), PageLimit))
HasMore(h) == Len(h) > PageLimit

\* chat.delete of a message.
Remove(h, ts) == SelectSeq(h, LAMBDA m : m # ts)

-----------------------------------------------------------------------------
\* The program.

\* A variant of validateYmlFile that wants both a user and a conversation.
validateYmlFileBoth(c) ==
    IF c.Token = "" THEN [config |-> Null, err |-> ErrToken]
    ELSE IF Len(c.Users) = 0 \/ Len(c.Convs) = 0
         THEN [config |-> Null, err |-> ErrTargets]
         ELSE [config |-> c, err |-> Nil]

\* validateYmlFile: the returned config and error.
validateYmlFile(c) ==
    IF c.Token = "" THEN [config |-> Null, err |-> ErrToken]
    ELSE IF Len(c.Users) = 0 /\ Len(c.Convs) = 0
         THEN [config |-> Null, err |-> ErrTargets]
         ELSE [config |-> c, err |-> Nil]

\* readYmlFile: the returned config and error.
readYmlFile(f) ==
    IF ~f.readable THEN [config |-> Null, err |-> ErrIO]
    ELSE IF ~f.wellformed THEN [config |-> Null, err |-> ErrParse]
         ELSE validateYmlFile(f.parsed)

Init ==
    /\ pc = "start"
    /\ file \in Files
    /\ config = Null
    /\ err = Nil
    /\ resolved = <<>>
    /\ ui = 1
    /\ convs = <<>>
    /\ ci = 1
    /\ hist = <<>>
    /\ more = FALSE
    /\ cont = FALSE
    /\ mi = 1
    /\ history \in [ConvIDs -> {Newest(n) : n \in 0..MaxMsgs}]
    /\ log = <<>>

\* start, lines 39-44: load the config, return its error.
ReadConfig ==
    /\ pc = "start"
    /\ LET r == readYmlFile(file)
       IN  /\ config' = r.config
           /\ err' = r.err
           /\ pc' = IF r.err # Nil THEN "exit" ELSE "getConvos"
    /\ UNCHANGED <<file, resolved, ui, convs, ci, hist, more, cont, mi, history, log>>

\* A variant of ShouldResolve that resolves the users whatever is configured.
ShouldResolveAlways(c) == TRUE

\* getConvos, line 68: users are resolved only when no conversation is configured.
ShouldResolve(c) == Len(c.Convs) = 0

\* A variant of Collect that puts the new identifier first.
CollectFirst(cs, id) == <<id>> \o cs

\* getConvos, line 77: convs = append(convs, conversation).
Collect(cs, id) == Append(cs, id)

\* A variant of FailedResult that returns what was resolved so far.
FailedResultPartial(cs) == cs

\* getConvos, line 74: the conversations returned with an error (nil).
FailedResult(cs) == <<>>

\* getConvos, lines 70-78, one turn of the loop: getConvoFromUser and
\* getChannelIDFromUser open the DM of the next user; an error ends getConvos
\* (and start) with nil and that error.
OpenConversation ==
    /\ pc = "getConvos"
    /\ ShouldResolve(config)
    /\ ui <= Len(config.Users)
    /\ LET u == config.Users[ui]
       IN  \/ /\ log' = Append(log, [op |-> "open", user |-> u,
                                     conv |-> ChannelOf(u), err |-> Nil])
              /\ resolved' = Collect(resolved, ChannelOf(u))
              /\ ui' = ui + 1
              /\ UNCHANGED <<pc, err, convs>>
           \/ \E e \in OpenErrors :
                /\ log' = Append(log, [op |-> "open", user |-> u,
                                       conv |-> "", err |-> e])
                /\ err' = e
                /\ convs' = FailedResult(resolved)
                /\ pc' = "exit"
                /\ UNCHANGED <<resolved, ui>>
    /\ UNCHANGED <<file, config, ci, hist, more, cont, mi, history>>

\* getConvos, line 81, and start, lines 46-51: the collected conversations are
\* returned and start begins its loop over them.
GetConvosReturn ==
    /\ pc = "getConvos"
    /\ ~ShouldResolve(config) \/ ui > Len(config.Users)
    /\ convs' = resolved
    /\ err' = Nil
    /\ ci' = 1
    /\ pc' = "loop"
    /\ UNCHANGED <<file, config, resolved, ui, hist, more, cont, mi, history, log>>

\* start, lines 51-59: call deleteConvo for the next conversation, or return nil.
StartLoop ==
    /\ pc = "loop"
    /\ IF ci <= Len(convs)
       THEN /\ cont' = FALSE
            /\ pc' = "fetch"
            /\ UNCHANGED err
       ELSE /\ err' = Nil
            /\ pc' = "exit"
            /\ UNCHANGED cont
    /\ UNCHANGED <<file, config, resolved, ui, convs, ci, hist, more, mi, history, log>>

\* A variant of CurrentConv that walks convs from its end.
CurrentConvReversed == convs[Len(convs) - ci + 1]

\* start, lines 51-53, and deleteConvo, lines 85-88: the conversation
\* deleteConvo is called with, which it fetches and deletes by.
CurrentConv == convs[ci]

\* A variant of Target that passes the position in the page for the timestamp.
TargetIndex(page, i) == i

\* deleteConvo, line 90: the condition under which the loop body runs again.
LoopAgain(c) == ~c

\* A variant of Cleared under which no page ends the loop.
ClearedNever(page) == FALSE

\* deleteConvo, line 95: the page that ends the loop.
Cleared(page) == Len(page) = 0

\* deleteConvo, line 99: the range loop moves to the next message.
NextMessage(i) == i + 1

\* A variant of Target that walks the page from its end.
TargetReversed(page, i) == page[Len(page) - i + 1]

\* deleteConvo, lines 99-101: the timestamp DeleteMessage is called with in
\* the i-th turn of the range loop.
Target(page, i) == page[i]

\* A variant of AfterSleep that tries the same message again.
AfterSleepRetry(i) == i

\* deleteConvo, lines 103-106 and 99: where the range loop goes on after the sleep.
AfterSleep(i) == i + 1

\* deleteConvo, lines 91-98: fetch a page; an error is returned, an empty page
\* ends the loop with nil.
Fetch ==
    /\ pc = "fetch"
    /\ LET c == CurrentConv
       IN  \/ \E e \in FetchErrors :
                /\ log' = Append(log, [op |-> "fetch", run |-> ci, conv |-> c,
                                       page |-> <<>>, more |-> FALSE, err |-> e])
                /\ err' = e
                /\ pc' = "deleteRet"
                /\ UNCHANGED <<hist, more, mi>>
           \/ /\ log' = Append(log, [op |-> "fetch", run |-> ci, conv |-> c,
                                     page |-> Page(history[c]),
                                     more |-> HasMore(history[c]), err |-> Nil])
              /\ hist' = Page(history[c])
              /\ more' = HasMore(history[c])
              /\ IF Cleared(Page(history[c]))
                 THEN /\ err' = Nil
                      /\ pc' = "deleteRet"
                      /\ UNCHANGED mi
                 ELSE /\ mi' = 1
                      /\ pc' = "delete"
                      /\ UNCHANGED err
    /\ UNCHANGED <<file, config, resolved, ui, convs, ci, cont, history>>

\* deleteConvo, lines 100-110: delete the next message of the page; a
\* rate-limit error leads to the sleep, any other error is returned.
Delete ==
    /\ pc = "delete"
    /\ mi <= Len(hist)
    /\ LET c == CurrentConv
           m == Target(hist, mi)
       IN  \/ /\ log' = Append(log, [op |-> "delete", run |-> ci, conv |-> c,
                                     ts |-> m, err |-> Nil])
              /\ history' = [history EXCEPT ![c] = Remove(@, m)]
              /\ mi' = NextMessage(mi)
              /\ UNCHANGED <<pc, err>>
           \/ \E e \in DeleteErrors :
                /\ log' = Append(log, [op |-> "delete", run |-> ci, conv |-> c,
                                       ts |-> m, err |-> e])
                /\ IF IsRateLimit(e)
                   THEN /\ pc' = "sleep"
                        /\ UNCHANGED err
                   ELSE /\ err' = e
                        /\ pc' = "deleteRet"
                /\ UNCHANGED <<mi, history>>
    /\ UNCHANGED <<file, config, resolved, ui, convs, ci, hist, more, cont>>

\* deleteConvo, lines 104-106: sleep, then go on with the next message.
Sleep ==
    /\ pc = "sleep"
    /\ log' = Append(log, [op |-> "sleep", run |-> ci, secs |-> seconds])
    /\ mi' = AfterSleep(mi)
    /\ pc' = "delete"
    /\ UNCHANGED <<file, config, err, resolved, ui, convs, ci, hist, more, cont, history>>

\* deleteConvo, lines 112-114 and 90: after the last message of the page,
\* cont = hist.HasMore decides between another fetch and return nil.
PageEnd ==
    /\ pc = "delete"
    /\ mi > Len(hist)
    /\ cont' = more
    /\ IF LoopAgain(more)
       THEN /\ pc' = "fetch"
            /\ UNCHANGED err
       ELSE /\ err' = Nil
            /\ pc' = "deleteRet"
    /\ UNCHANGED <<file, config, resolved, ui, convs, ci, hist, more, mi, history, log>>

\* A variant of Aborts that goes on with the next conversation.
AbortsNever(e) == FALSE

\* start, line 54: whether deleteConvo's result ends the run.
Aborts(e) == e # Nil

\* start, lines 53-57: deleteConvo has returned; its error ends the run.
DeleteReturn ==
    /\ pc = "deleteRet"
    /\ IF Aborts(err)
       THEN /\ pc' = "exit"
            /\ UNCHANGED ci
       ELSE /\ ci' = ci + 1
            /\ pc' = "loop"
    /\ UNCHANGED <<file, config, err, resolved, ui, convs, hist, more, cont, mi, history, log>>

\* The run may issue another platform call while fewer than n are logged.
CallsBelow(n) == Len(log) < n

Next ==
    \/ ReadConfig
    \/ CallsBelow(MaxCalls) /\ OpenConversation
    \/ GetConvosReturn
    \/ StartLoop
    \/ CallsBelow(MaxCalls) /\ Fetch
    \/ CallsBelow(MaxCalls) /\ Delete
    \/ Sleep
    \/ PageEnd
    \/ DeleteReturn

Spec == Init /\ [][Next]_vars

\* The deletes the platform has answered with its rate-limit error.
RateLimitedDeletes(l) ==
    Len(SelectSeq(l, LAMBDA e : e.op = "delete" /\ e.err = ErrRateLimited))

\* More events than a run can log when at most MaxRateLimits deletes are
\* rate-limited: one open per user; per successful or failed delete one
\* delete, at most one sleep and at most one fetch before it; one closing
\* fetch per conversation.
FairCalls ==
    MaxFairUsers + 3 * (MaxFairUsers * MaxMsgs + MaxRateLimits + 1) + MaxFairUsers + 1

\* The steps of a run in which the platform stops rate-limiting deletes after
\* MaxRateLimits of them.
NextFair ==
    \/ ReadConfig
    \/ CallsBelow(FairCalls) /\ OpenConversation
    \/ GetConvosReturn
    \/ StartLoop
    \/ CallsBelow(FairCalls) /\ Fetch
    \/ CallsBelow(FairCalls) /\ Delete /\ RateLimitedDeletes(log') <= MaxRateLimits
    \/ Sleep
    \/ PageEnd
    \/ DeleteReturn

\* The single thread runs on whenever it can: every call returns, every sleep ends.
FairInit == Init /\ Len(file.parsed.Users) <= MaxFairUsers

FairSpec == FairInit /\ [][NextFair]_vars /\ WF_vars(NextFair)

-----------------------------------------------------------------------------
\* Reading the log.

IsCall(e) == e.op \in {"open", "fetch", "delete"}

\* The fetches, deletes and sleeps of the j-th call of deleteConvo.
RunEvents(j) == SelectSeq(log, LAMBDA e : e.op # "open" /\ e.run = j)

\* The open-conversation calls.
Opens == SelectSeq(log, LAMBDA e : e.op = "open")

\* The successful deletes of page p, in page order, by the j-th deleteConvo.
DeletesOf(p, j) ==
    [i \in 1..Len(p) |->
        [op |-> "delete", run |-> j, conv |-> convs[j], ts |-> p[i], err |-> Nil]]

\* The position in the log of the fetch whose page log[k] works on.
PrevFetch(k) ==
    CHOOSE f \in 1..(k - 1) :
        /\ log[f].op = "fetch"
        /\ \A i \in (f + 1)..(k - 1) : log[i].op # "fetch"

IndexIn(p, ts) == CHOOSE i \in 1..Len(p) : p[i] = ts

\* The position of the second fetch among the events R of one deleteConvo.
SecondFetch(R) ==
    CHOOSE k \in 2..Len(R) :
        /\ R[k].op = "fetch"
        /\ \A i \in 2..(k - 1) : R[i].op # "fetch"

InvalidConfig == {ErrToken, ErrTargets}

-----------------------------------------------------------------------------
\* The claims.

\* C1: whenever deleteConvo returns success (nil) for a conversation, the
\* conversation's history on the platform is empty.
C1_SuccessMeansEmpty ==
    (pc = "deleteRet" /\ err = Nil) => history[convs[ci]] = <<>>

\* C2: when the first fetch of a deleteConvo returns a page of n >= 1 messages,
\* every delete succeeds and the next fetch returns an empty page, the calls of
\* that deleteConvo are the first fetch, then exactly one successful delete per
\* message of the page, in page order and keyed by (conversation, timestamp),
\* then the empty fetch, and deleteConvo returns nil; when the first fetch
\* returns no message, it is the only call and deleteConvo returns nil.
C2_OnePageThenEmpty ==
    \A j \in 1..Len(convs) :
        LET R == RunEvents(j)
        IN  /\ ( /\ Len(R) >= 1
                 /\ R[1].err = Nil
                 /\ R[1].page # <<>>
                 /\ \A k \in 1..Len(R) : R[k].op = "delete" => R[k].err = Nil
                 /\ \E k \in 2..Len(R) : R[k].op = "fetch"
                 /\ R[SecondFetch(R)].err = Nil
                 /\ R[SecondFetch(R)].page = <<>> )
               => /\ R = <<R[1]>> \o DeletesOf(R[1].page, j)
                         \o <<[op |-> "fetch", run |-> j, conv |-> convs[j],
                               page |-> <<>>, more |-> FALSE, err |-> Nil]>>
                  /\ R[1].conv = convs[j]
                  /\ j <= ci
                  /\ j = ci => pc = "deleteRet" /\ err = Nil
            /\ ( /\ Len(R) >= 1
                 /\ R[1].err = Nil
                 /\ R[1].page = <<>> )
               => /\ Len(R) = 1
                  /\ j <= ci
                  /\ j = ci => pc = "deleteRet" /\ err = Nil

\* C2 witness: a deleteConvo has just returned after a first page of two
\* messages, two successful deletes and an empty second page.
C2_Witness ==
    /\ pc = "deleteRet"
    /\ Len(RunEvents(ci)) = 4
    /\ Len(RunEvents(ci)[1].page) = 2
    /\ RunEvents(ci)[2].err = Nil
    /\ RunEvents(ci)[3].err = Nil
    /\ RunEvents(ci)[4].op = "fetch"
    /\ RunEvents(ci)[4].err = Nil

\* C3: a delete that fails with an error other than the rate limit is the last
\* event of the run (no sleep, delete or fetch follows it), and deleteConvo
\* returns exactly that error.
C3_OtherErrorReturned ==
    \A k \in 1..Len(log) :
        (log[k].op = "delete" /\ log[k].err \notin {Nil, ErrRateLimited})
        => /\ k = Len(log)
           /\ err = log[k].err
           /\ pc \in {"deleteRet", "exit"}
           /\ ci = log[k].run

\* C3 witness: deleteConvo has returned the error of a failed delete while
\* messages of the page are left.
C3_Witness ==
    /\ pc = "deleteRet"
    /\ err = ErrMessageNotFound
    /\ log[Len(log)].op = "delete"
    /\ mi < Len(hist)

\* C4: a rate-limited delete is followed by a sleep of 30 seconds and then by
\* the delete of the next message of the page (by a fetch when the page is
\* through); it leaves no error to return.
C4_RateLimitSleeps ==
    \A k \in 1..Len(log) :
        (log[k].op = "delete" /\ log[k].err = ErrRateLimited)
        => LET p == log[PrevFetch(k)].page
               i == IndexIn(p, log[k].ts)
           IN  /\ k = Len(log) => pc = "sleep"
               /\ k < Len(log) =>
                    log[k + 1] = [op |-> "sleep", run |-> log[k].run, secs |-> 30]
               /\ k + 1 >= Len(log) => err = Nil /\ pc \in {"sleep", "delete", "fetch", "deleteRet", "loop", "exit"}
               /\ k + 2 <= Len(log) =>
                    IF i < Len(p)
                    THEN /\ log[k + 2].op = "delete"
                         /\ log[k + 2].run = log[k].run
                         /\ log[k + 2].conv = log[k].conv
                         /\ log[k + 2].ts = p[i + 1]
                    ELSE log[k + 2].op = "fetch"

\* C4 witness: a rate-limited delete, the sleep, then the successful delete of
\* the next message, and deleteConvo returns nil.
C4_Witness ==
    /\ pc = "deleteRet"
    /\ err = Nil
    /\ \E k \in 1..Len(log) :
        /\ log[k].op = "delete"
        /\ log[k].err = ErrRateLimited
        /\ k + 2 <= Len(log)
        /\ log[k + 1].op = "sleep"
        /\ log[k + 2].op = "delete"
        /\ log[k + 2].err = Nil

\* C5: validation fails with InvalidConfig exactly for the parsed configs with
\* an empty token or with neither user nor conversation, and otherwise returns
\* the parsed config unchanged; after a failure of readYmlFile the run ends
\* without any platform call.
C5_ConfigValidated ==
    pc # "start" =>
        /\ (file.readable /\ file.wellformed) =>
              IF file.parsed.Token = ""
                 \/ (file.parsed.Users = <<>> /\ file.parsed.Convs = <<>>)
              THEN config = Null /\ err \in InvalidConfig
              ELSE config = file.parsed
        /\ config = Null => log = <<>> /\ pc = "exit" /\ err # Nil

\* C5 witness: a config with a token and no target has been refused.
C5_Witness ==
    /\ pc = "exit"
    /\ file.readable /\ file.wellformed
    /\ file.parsed.Token # ""
    /\ file.parsed.Users = <<>>
    /\ file.parsed.Convs = <<>>
    /\ err = ErrTargets

\* C6: with users and no conversation configured, once getConvos has returned
\* after successful resolutions only, there is exactly one open-conversation
\* call per configured user, in the order of the user list, and the i-th
\* returned identifier is the one the platform gave for the i-th user.
C6_OnePerUserInOrder ==
    ( /\ pc \notin {"start", "getConvos"}
      /\ config # Null
      /\ Len(config.Convs) = 0
      /\ \A k \in 1..Len(Opens) : Opens[k].err = Nil )
    => /\ Len(Opens) = Len(config.Users)
       /\ Len(convs) = Len(config.Users)
       /\ \A i \in 1..Len(config.Users) :
            /\ Opens[i].user = config.Users[i]
            /\ convs[i] = Opens[i].conv

\* C6 witness: two different users have been resolved and getConvos has returned.
C6_Witness ==
    /\ pc = "loop"
    /\ ci = 1
    /\ Len(convs) = 2
    /\ convs[1] # convs[2]

\* C7: with a conversation configured, whatever the users, no platform call is
\* ever issued, getConvos returns the empty sequence and start returns nil.
C7_ConvsConfigured ==
    (pc # "start" /\ config # Null /\ Len(config.Convs) > 0)
    => /\ log = <<>>
       /\ pc \in {"getConvos", "loop", "exit"}
       /\ pc # "getConvos" => convs = <<>>
       /\ err = Nil

\* C7 witness: the run has ended for a config with a conversation and a user.
C7_Witness ==
    /\ pc = "exit"
    /\ config # Null
    /\ Len(config.Convs) > 0
    /\ Len(config.Users) > 0

\* C8: a call that answers with an error, other than a rate-limited delete, is
\* the last event of the run and its error is the run's error; a config that
\* fails to load ends the run with the loader's error before any call; and a
\* run that has ended with an error has gone through no conversation after
\* the failed one.
C8_FirstErrorEndsRun ==
    /\ \A k \in 1..Len(log) :
          ( /\ IsCall(log[k])
            /\ log[k].err # Nil
            /\ ~(log[k].op = "delete" /\ log[k].err = ErrRateLimited) )
          => /\ k = Len(log)
             /\ err = log[k].err
             /\ pc \in {"deleteRet", "exit"}
             /\ log[k].op # "open" => ci = log[k].run
    /\ (pc # "start" /\ readYmlFile(file).err # Nil)
          => pc = "exit" /\ err = readYmlFile(file).err /\ log = <<>>
    /\ (pc = "exit" /\ err # Nil /\ log # <<>>)
          => /\ log[Len(log)].err = err
             /\ \A k \in 1..Len(log) : log[k].op # "open" => log[k].run <= ci

\* C8 witness: the run has ended with the error of the first of two
\* conversations, after a fetch and a delete.
C8_Witness ==
    /\ pc = "exit"
    /\ err # Nil
    /\ Len(convs) = 2
    /\ ci = 1
    /\ \E k \in 1..Len(log) : log[k].op = "delete"

\* C9: after the last message of a non-empty page, deleteConvo fetches again
\* exactly when the platform reported more pages, and returns nil without
\* another fetch exactly when it reported none.
C9_FetchAgainIffHasMore ==
    [][(pc = "delete" /\ mi > Len(hist))
        => /\ more => pc' = "fetch"
           /\ ~more => (pc' = "deleteRet" /\ err' = Nil /\ log' = log)]_vars

\* C10 (as stated): after a rate-limited delete, no delete is issued again for
\* the same message by the same deleteConvo.
C10_NeverDeletedAgain ==
    \A k \in 1..Len(log) : \A l \in (k + 1)..Len(log) :
        ~( /\ log[k].op = "delete"
           /\ log[k].err = ErrRateLimited
           /\ log[l].op = "delete"
           /\ log[l].run = log[k].run
           /\ log[l].ts = log[k].ts )

\* C10 (amended): after a rate-limited delete, the same deleteConvo issues a
\* delete for the same message again only after a later fetch has returned the
\* message again: never while it works on the page the message came from.
C10_DeletedAgainOnlyAfterFetch ==
    \A k \in 1..Len(log) : \A l \in (k + 1)..Len(log) :
        ( /\ log[k].op = "delete"
          /\ log[k].err = ErrRateLimited
          /\ log[l].op = "delete"
          /\ log[l].run = log[k].run
          /\ log[l].ts = log[k].ts )
        => \E f \in (k + 1)..(l - 1) :
              /\ log[f].op = "fetch"
              /\ log[f].run = log[k].run
              /\ log[f].err = Nil
              /\ \E i \in 1..Len(log[f].page) : log[f].page[i] = log[k].ts

\* C10 witness: a message whose delete was rate-limited has been deleted by
\* the same deleteConvo after a second fetch.
C10_Witness ==
    \E k \in 1..Len(log) : \E l \in (k + 1)..Len(log) :
        /\ log[k].op = "delete"
        /\ log[k].err = ErrRateLimited
        /\ log[l].op = "delete"
        /\ log[l].run = log[k].run
        /\ log[l].ts = log[k].ts
        /\ log[l].err = Nil

\* C11: the run never ends with a rate-limit error, whichever platform call
\* reported it: a run that ends with an error ends with a configuration error
\* or a platform error other than the rate limit.
C11_RateLimitNeverTerminal ==
    pc = "exit" => err # ErrRateLimited

\* C12: when resolving the k-th configured user fails, the failed call is the
\* last event of the run, it and the calls before it are one open-conversation
\* call per user for the first k users in order (none resolved twice, none
\* after the k-th), getConvos returns that error and no identifier, and the
\* run issues no fetch and no delete.
C12_FailedResolutionEndsRun ==
    \A k \in 1..Len(log) :
        (log[k].op = "open" /\ log[k].err # Nil)
        => /\ k = Len(log)
           /\ k <= Len(config.Users)
           /\ \A i \in 1..k : log[i].op = "open" /\ log[i].user = config.Users[i]
           /\ \A i \in 1..(k - 1) : log[i].err = Nil
           /\ convs = <<>>
           /\ err = log[k].err
           /\ pc = "exit"

\* C12 witness: the second of two users has failed to resolve.
C12_Witness ==
    /\ pc = "exit"
    /\ Len(log) = 2
    /\ log[1].op = "open" /\ log[1].err = Nil
    /\ log[2].op = "open" /\ log[2].err # Nil
    /\ Len(resolved) = 1

\* C13: in every step, a new open-conversation call comes before any fetch or
\* delete; a new fetch or delete is for the conversation at start's current
\* position in the resolved list, no earlier call being for a later position;
\* and start moves to the next position, by one, only when deleteConvo has
\* returned nil for the current one.
C13_StagesInOrder ==
    [][ /\ log' # log =>
            LET e == log'[Len(log')]
            IN  /\ Len(log') = Len(log) + 1
                /\ e.op = "open" => \A k \in 1..Len(log) : log[k].op = "open"
                /\ e.op # "open" =>
                      /\ e.run = ci
                      /\ ci \in 1..Len(convs)
                      /\ e.op \in {"fetch", "delete"} => e.conv = convs[ci]
                      /\ Len(Opens) = Len(convs)
                      /\ \A i \in 1..Len(convs) : Opens[i].conv = convs[i]
                      /\ \A k \in 1..Len(log) : log[k].op # "open" => log[k].run <= ci
        /\ (ci' # ci /\ pc # "getConvos") =>
              pc = "deleteRet" /\ err = Nil /\ ci' = ci + 1 ]_vars

\* C13 witness: the second conversation is being fetched after the first was
\* fetched and deleted from.
C13_Witness ==
    /\ pc = "delete"
    /\ ci = 2
    /\ convs[1] # convs[2]
    /\ \E k \in 1..Len(log) : log[k].op = "delete" /\ log[k].run = 1
    /\ log[Len(log)].op = "fetch"

\* C14: every delete call is for the resolved conversation start is at when
\* it is issued, a conversation an open-conversation call for a configured
\* user returned, and for a timestamp of the page the latest fetch returned,
\* that fetch being a successful one by the same deleteConvo for the same
\* conversation.
C14_DeleteTargetsFetchedMessage ==
    \A k \in 1..Len(log) :
        log[k].op = "delete"
        => /\ log[k].run \in 1..Len(convs)
           /\ log[k].conv = convs[log[k].run]
           /\ (k = Len(log) /\ pc \in {"delete", "sleep", "deleteRet"}) => log[k].run = ci
           /\ log[k].run <= ci
           /\ \E o \in 1..Len(Opens) :
                /\ Opens[o].err = Nil
                /\ Opens[o].conv = log[k].conv
                /\ \E u \in 1..Len(config.Users) : config.Users[u] = Opens[o].user
           /\ \E f \in 1..(k - 1) : log[f].op = "fetch"
           /\ LET f == PrevFetch(k)
              IN  /\ log[f].err = Nil
                  /\ log[f].run = log[k].run
                  /\ log[f].conv = log[k].conv
                  /\ \E i \in 1..Len(log[f].page) : log[f].page[i] = log[k].ts

\* C14 witness: the second message of a page fetched for the second
\* conversation has been deleted.
C14_Witness ==
    /\ Len(log) > 0
    /\ log[Len(log)].op = "delete"
    /\ log[Len(log)].run = 2
    /\ mi = 3
    /\ hist[2] = log[Len(log)].ts

\* C15: when successful deletes remove their message and the platform stops
\* rate-limiting deletes, every deleteConvo that has begun returns, with nil
\* or with an error.
C15_DeleteConvoReturns ==
    (pc \in {"fetch", "delete", "sleep"}) ~> (pc = "deleteRet")

\* C15 witness: a deleteConvo has returned nil after rate-limited deletes, a
\* second fetch of the messages left and their deletion.
C15_Witness ==
    /\ pc = "deleteRet"
    /\ err = Nil
    /\ RateLimitedDeletes(RunEvents(ci)) = MaxRateLimits
    /\ history[convs[ci]] = <<>>
    /\ Len(SelectSeq(RunEvents(ci), LAMBDA e : e.op = "fetch")) >= 3
====
